---- MODULE Spec2Model ----
(***************************************************************************)
(* Model of the nf-core test-datasets helpers and the component utilities. *)
(*                                                                         *)
(*   SpecFetch   list_files_by_branch and list_files_by_branch_async run   *)
(*               against the same remote responses                         *)
(*   SpecTree    get_remote_tree_for_branch on arbitrary small trees       *)
(*   SpecRepo    successive get_repo_info calls on one configuration file  *)
(*   SpecPicker  prompt_component_version_sha paging through a commit log  *)
(*   SpecSearch  the interactive file search of search_datasets and of     *)
(*               test_datasets_search                                      *)
(*   SpecInstall get_components_to_install on a main.nf and a meta.yml     *)
(*                                                                         *)
(* Strings the code inspects character by character (paths, prefixes) are  *)
(* sequences of one-character strings.                                     *)
(***************************************************************************)
EXTENDS Integers, Sequences, FiniteSets, TLC

VARIABLES
    \* ---- remote side and call arguments of list_files_by_branch[_async]
    branch,          \* requested branch, NoBranch when none is given
    branches_resp,   \* response of the branch-listing endpoint
    tree_resp,       \* per branch: kind of response of the tree endpoint
    \* ---- list_files_by_branch (sequential)
    pc_sync, branches, tree, fetched, log_sync, exc_sync,
    \* ---- list_files_by_branch_async (concurrent)
    pc_async, a_branches, a_pending, a_results, a_tree, a_fetched,
    log_async, exc_async,
    \* ---- a single get_remote_tree_for_branch call
    t_nodes, t_prefixes, t_only_files, t_pc, t_result,
    \* ---- get_repo_info: the configuration file and the last call
    cfg_exists,      \* load_tools_config finds a configuration file
    cfg_file,        \* its lines, each a [key, value] pair
    r_prev_file,     \* the lines before the last call
    r_call,          \* arguments and prompt answers of the last call
    r_prompts,       \* the prompts the last call invoked, in order
    r_result,        \* what the last call returned or raised
    \* ---- prompt_component_version_sha
    p_log,           \* modules_repo.get_component_git_log(...)
    p_installed,     \* installed_sha, NoSha when not given
    p_pos,           \* how many commits the all_commits iterator has yielded
    p_commits, p_next_page_commits, p_choices, p_git_sha, p_page_nbr, p_pc,
    p_shown,         \* every commit hash presented so far, in order
    \* ---- search_datasets / test_datasets_search
    s_cmd,           \* which of the two commands runs
    s_branch,        \* the branch searched, NoBranchName when none is given
    s_flags,         \* generate_nf_path, generate_dl_url
    s_tree,          \* the mapping list_files_by_branch returned, in key order
    s_files,         \* its flat representation
    s_choices,       \* the choices of the prompt on screen
    s_selection,     \* the last answer
    s_asked,         \* how many answers were given
    s_out,           \* what was printed to stdout
    s_pc,
    \* ---- get_components_to_install
    g_main_nf,       \* the lines of main.nf
    g_meta,          \* meta.yml: whether it exists and its components list
    g_line,          \* lines of main.nf read so far
    g_comp,          \* entries of the components list handled so far
    g_modules,       \* the modules dict, in insertion order
    g_subworkflows,  \* the subworkflows dict, in insertion order
    g_result,        \* the returned pair of lists
    g_exc,           \* the exception raised, if any
    g_pc

fetchVars == <<branch, branches_resp, tree_resp,
               pc_sync, branches, tree, fetched, log_sync, exc_sync,
               pc_async, a_branches, a_pending, a_results, a_tree, a_fetched,
               log_async, exc_async>>
treeVars == <<t_nodes, t_prefixes, t_only_files, t_pc, t_result>>

repoVars == <<cfg_exists, cfg_file, r_prev_file, r_call, r_prompts, r_result>>

pickerVars == <<p_log, p_installed, p_pos, p_commits, p_next_page_commits,
                p_choices, p_git_sha, p_page_nbr, p_pc, p_shown>>

searchVars == <<s_cmd, s_branch, s_flags, s_tree, s_files, s_choices,
                s_selection, s_asked, s_out, s_pc>>

installVars == <<g_main_nf, g_meta, g_line, g_comp, g_modules, g_subworkflows,
                 g_result, g_exc, g_pc>>

vars == <<fetchVars, treeVars, repoVars, pickerVars, searchVars, installVars>>

----------------------------------------------------------------------------
\* Bounds

MaxBranches == 2
MaxNodes == 3
MaxPrefixes == 2
MaxConfigLines == 4
MaxCommits == 25
MaxFiles == 2
MaxAnswers == 3
MaxLines == 2
MaxComponents == 2

----------------------------------------------------------------------------
\* Generic helpers

SeqsUpTo(S, n) == UNION {[1..k -> S] : k \in 0..n}

Range(s) == {s[i] : i \in DOMAIN s}

IsInjective(s) == \A i, j \in DOMAIN s : s[i] = s[j] => i = j

\* str.startswith(prefix)
StartsWith(s, prefix) ==
    /\ Len(prefix) <= Len(s)
    /\ \A i \in 1..Len(prefix) : s[i] = prefix[i]

----------------------------------------------------------------------------
\* The remote repository

NoBranch == 0
BranchNames == 1..MaxBranches

BranchRespKinds == {"ok", "status", "connfail", "badjson", "nokey"}
TreeRespKinds == {"ok", "status_json", "status_nojson", "connfail", "badjson", "nokey"}

IGNORED_FILE_PREFIXES ==
    << <<".">>,
       <<"C", "I", "T", "A", "T", "I", "O", "N">>,
       <<"L", "I", "C", "E", "N", "S", "E">>,
       <<"R", "E", "A", "D", "M", "E">>,
       <<"d", "o", "c", "s">> >>

\* The tree the remote serves for branch b: the administrative entries of
\* every branch, two directories, and one data file named after the branch.
RemoteTree(b) ==
    << [type |-> "tree", path |-> <<".", "g", "i", "t", "h", "u", "b">>],
       [type |-> "blob", path |-> <<".", "g", "i", "t", "h", "u", "b", "/", "x">>],
       [type |-> "blob", path |-> <<"C", "I", "T", "A", "T", "I", "O", "N", ".", "c", "f", "f">>],
       [type |-> "blob", path |-> <<"R", "E", "A", "D", "M", "E", ".", "m", "d">>],
       [type |-> "tree", path |-> <<"d", "a", "t", "a">>],
       [type |-> "blob", path |-> <<"d", "o", "c", "s", "/", "r", ".", "t", "x", "t">>],
       [type |-> "blob", path |-> <<"d", "a", "t", "a", "/", "s", ".", "c", "s", "v">>],
       [type |-> "blob", path |-> <<"d", "a", "t", "a", "/", ToString(b)>>] >>

----------------------------------------------------------------------------
\* Outcomes of a call: a returned value or a raised exception, plus whether
\* log.error was called.

Return(v, logged) == [kind |-> "return", value |-> v, exc |-> "", logged |-> logged]
Raise(e, logged) == [kind |-> "raise", value |-> <<>>, exc |-> e, logged |-> logged]

\* get_remote_branches: resp is [kind, names].
get_remote_branches(resp) ==
    CASE resp.kind = "connfail" -> Raise("UnboundLocalError", TRUE)
      [] resp.kind = "status"   -> Return(<<>>, TRUE)
      [] resp.kind = "badjson"  -> Raise("UnboundLocalError", TRUE)
      [] resp.kind = "nokey"    -> Raise("UnboundLocalError", TRUE)
      [] OTHER                  -> Return(resp.names, FALSE)

\* faulty variant of PrefixLoopBreaks: only the first ignored prefix is tested
PrefixLoopBreaks_first_only(path, ignored_prefixes, i) ==
    /\ i = 1
    /\ Len(ignored_prefixes) >= 1
    /\ StartsWith(path, ignored_prefixes[1])

\* the inner for ... else of the prefix filter: TRUE when the loop breaks
RECURSIVE PrefixLoopBreaks(_, _, _)
PrefixLoopBreaks(path, ignored_prefixes, i) ==
    IF i > Len(ignored_prefixes) THEN FALSE
    ELSE IF StartsWith(path, ignored_prefixes[i]) THEN TRUE
    ELSE PrefixLoopBreaks(path, ignored_prefixes, i + 1)

\* the outer loop building repo_files
RECURSIVE RepoFiles(_, _, _)
RepoFiles(repo_tree, ignored_prefixes, i) ==
    IF i > Len(repo_tree) THEN <<>>
    ELSE IF PrefixLoopBreaks(repo_tree[i].path, ignored_prefixes, 1)
         THEN RepoFiles(repo_tree, ignored_prefixes, i + 1)
         ELSE <<repo_tree[i].path>> \o RepoFiles(repo_tree, ignored_prefixes, i + 1)

OnlyFiles(repo_tree) == SelectSeq(repo_tree, LAMBDA node : node.type = "blob")

\* the filtering shared by the sequential and the concurrent variant
FilterTree(nodes, only_files, ignored_prefixes) ==
    RepoFiles(IF only_files THEN OnlyFiles(nodes) ELSE nodes, ignored_prefixes, 1)

\* faulty variant of get_remote_tree_for_branch: a non-success status raises
get_remote_tree_for_branch_status_raises(kind, nodes, only_files, ignored_prefixes) ==
    CASE kind = "connfail"      -> Raise("UnboundLocalError", TRUE)
      [] kind = "status_json"   -> Raise("HTTPError", FALSE)
      [] kind = "status_nojson" -> Raise("HTTPError", FALSE)
      [] kind = "badjson"       -> Raise("UnboundLocalError", TRUE)
      [] kind = "nokey"         -> Raise("KeyError", FALSE)
      [] OTHER                  -> Return(FilterTree(nodes, only_files, ignored_prefixes), FALSE)

\* get_remote_tree_for_branch: kind is the response kind, nodes its tree.
get_remote_tree_for_branch(kind, nodes, only_files, ignored_prefixes) ==
    CASE kind = "connfail"      -> Raise("UnboundLocalError", TRUE)
      [] kind = "status_json"   -> Return(<<>>, TRUE)
      [] kind = "status_nojson" -> Return(<<>>, TRUE)
      [] kind = "badjson"       -> Raise("UnboundLocalError", TRUE)
      [] kind = "nokey"         -> Raise("KeyError", FALSE)
      [] OTHER                  -> Return(FilterTree(nodes, only_files, ignored_prefixes), FALSE)

\* get_remote_tree_for_branch_async: the body is parsed before the status
\* is looked at, and nothing is caught.
get_remote_tree_for_branch_async(kind, nodes, only_files, ignored_prefixes) ==
    CASE kind = "connfail"      -> Raise("ClientError", FALSE)
      [] kind = "status_nojson" -> Raise("ContentTypeError", FALSE)
      [] kind = "badjson"       -> Raise("ContentTypeError", FALSE)
      [] kind = "status_json"   -> Return(<<>>, TRUE)
      [] kind = "nokey"         -> Raise("KeyError", FALSE)
      [] OTHER                  -> Return(FilterTree(nodes, only_files, ignored_prefixes), FALSE)

\* faulty variant of FilterBranches: the requested branch is not applied
FilterBranches_unfiltered(bs, requested) == bs

\* list(filter(lambda b: b == branch, branches)), applied when branch is truthy
FilterBranches(bs, requested) ==
    IF requested # NoBranch THEN SelectSeq(bs, LAMBDA b : b = requested) ELSE bs

LogEntry(msg, b) == [msg |-> msg, branch |-> b]

\* the log lines of the common head of both list functions
HeadLog(outcome, requested) ==
    (IF outcome.logged THEN <<LogEntry("branches", NoBranch)>> ELSE <<>>)
    \o (IF /\ outcome.kind = "return"
           /\ requested # NoBranch
           /\ Len(FilterBranches(outcome.value, requested)) = 0
        THEN <<LogEntry("No branches matching", requested)>>
        ELSE <<>>)

EmptyTree == [b \in {} |-> <<>>]

----------------------------------------------------------------------------
\* Idle values of the variable groups

FetchIdle ==
    /\ branch = NoBranch
    /\ branches_resp = [kind |-> "status", names |-> <<>>]
    /\ tree_resp = [b \in BranchNames |-> "ok"]
    /\ pc_sync = "idle" /\ branches = <<>> /\ tree = EmptyTree
    /\ fetched = <<>> /\ log_sync = <<>> /\ exc_sync = ""
    /\ pc_async = "idle" /\ a_branches = <<>> /\ a_pending = {}
    /\ a_results = EmptyTree /\ a_tree = EmptyTree /\ a_fetched = {}
    /\ log_async = <<>> /\ exc_async = ""

TreeIdle ==
    /\ t_nodes = <<>> /\ t_prefixes = <<>> /\ t_only_files = TRUE
    /\ t_pc = "idle" /\ t_result = Return(<<>>, FALSE)

NoCall == [called |-> FALSE, is_dir |-> TRUE, use_prompt |-> FALSE,
           type_answer |-> "pipeline", confirm_type |-> FALSE,
           org_answer |-> "", confirm_org |-> FALSE]
NoResult == [kind |-> "none", base_dir |-> "", repo_type |-> "", org |-> "",
             error |-> "", value |-> ""]

RepoIdle ==
    /\ cfg_exists = FALSE /\ cfg_file = <<>> /\ r_prev_file = <<>>
    /\ r_call = NoCall /\ r_prompts = <<>> /\ r_result = NoResult

NoBranchName == ""

SearchIdle ==
    /\ s_cmd = "search_datasets" /\ s_branch = NoBranchName
    /\ s_flags = [generate_nf_path |-> FALSE, generate_dl_url |-> FALSE]
    /\ s_tree = <<>> /\ s_files = <<>> /\ s_choices = <<>>
    /\ s_selection = "" /\ s_asked = 0 /\ s_out = <<>> /\ s_pc = "idle"

NoError == [type |-> "", message |-> "", name |-> <<>>]

InstallIdle ==
    /\ g_main_nf = <<>> /\ g_meta = [exists |-> FALSE, components |-> <<>>]
    /\ g_line = 0 /\ g_comp = 0 /\ g_modules = <<>> /\ g_subworkflows = <<>>
    /\ g_result = <<>> /\ g_exc = NoError /\ g_pc = "idle"

NoSha == 0

PickerIdle ==
    /\ p_log = <<>> /\ p_installed = NoSha /\ p_pos = 0
    /\ p_commits = <<>> /\ p_next_page_commits = <<>> /\ p_choices = <<>>
    /\ p_git_sha = NoSha /\ p_page_nbr = 1 /\ p_pc = "idle" /\ p_shown = <<>>

----------------------------------------------------------------------------
\* SpecFetch: list_files_by_branch and list_files_by_branch_async

BranchResponses ==
    {[kind |-> k, names |-> <<>>] : k \in BranchRespKinds \ {"ok"}}
    \cup {[kind |-> "ok", names |-> ns] :
            ns \in {s \in SeqsUpTo(BranchNames, MaxBranches) : IsInjective(s)}}

InitFetch ==
    /\ branch \in {NoBranch} \cup BranchNames
    /\ branches_resp \in BranchResponses
    /\ tree_resp \in [BranchNames -> TreeRespKinds]
    /\ pc_sync = "start" /\ branches = <<>> /\ tree = EmptyTree
    /\ fetched = <<>> /\ log_sync = <<>> /\ exc_sync = ""
    /\ pc_async = "start" /\ a_branches = <<>> /\ a_pending = {}
    /\ a_results = EmptyTree /\ a_tree = EmptyTree /\ a_fetched = {}
    /\ log_async = <<>> /\ exc_async = ""
    /\ TreeIdle
    /\ RepoIdle
    /\ PickerIdle
    /\ SearchIdle
    /\ InstallIdle

syncVars == <<pc_sync, branches, tree, fetched, log_sync, exc_sync>>
asyncVars == <<pc_async, a_branches, a_pending, a_results, a_tree, a_fetched,
               log_async, exc_async>>
remoteVars == <<branch, branches_resp, tree_resp>>

\* list_files_by_branch up to the loop over the branches
SyncStart ==
    /\ pc_sync = "start"
    /\ LET o == get_remote_branches(branches_resp) IN
        /\ log_sync' = HeadLog(o, branch)
        /\ IF o.kind = "raise"
           THEN /\ pc_sync' = "raised"
                /\ exc_sync' = o.exc
                /\ branches' = branches
           ELSE /\ pc_sync' = "loop"
                /\ exc_sync' = exc_sync
                /\ branches' = FilterBranches(o.value, branch)
    /\ UNCHANGED <<tree, fetched, remoteVars, asyncVars, treeVars, repoVars, pickerVars, searchVars, installVars>>

\* one iteration of `for b in branches`
SyncFetch ==
    /\ pc_sync = "loop"
    /\ Len(fetched) < Len(branches)
    /\ LET b == branches[Len(fetched) + 1]
           o == get_remote_tree_for_branch(tree_resp[b], RemoteTree(b), TRUE,
                                           IGNORED_FILE_PREFIXES)
       IN
        /\ fetched' = Append(fetched, b)
        /\ log_sync' = IF o.logged THEN Append(log_sync, LogEntry("tree", b))
                       ELSE log_sync
        /\ IF o.kind = "raise"
           THEN /\ pc_sync' = "raised"
                /\ exc_sync' = o.exc
                /\ tree' = tree
           ELSE /\ tree' = [x \in DOMAIN tree \cup {b} |->
                              IF x = b THEN o.value ELSE tree[x]]
                /\ UNCHANGED <<pc_sync, exc_sync>>
    /\ UNCHANGED <<branches, remoteVars, asyncVars, treeVars, repoVars, pickerVars, searchVars, installVars>>

\* `return tree`
SyncReturn ==
    /\ pc_sync = "loop"
    /\ Len(fetched) = Len(branches)
    /\ pc_sync' = "done"
    /\ UNCHANGED <<branches, tree, fetched, log_sync, exc_sync,
                   remoteVars, asyncVars, treeVars, repoVars, pickerVars, searchVars, installVars>>

\* list_files_by_branch_async up to asyncio.gather: every request is issued
AsyncStart ==
    /\ pc_async = "start"
    /\ LET o == get_remote_branches(branches_resp) IN
        /\ log_async' = HeadLog(o, branch)
        /\ IF o.kind = "raise"
           THEN /\ pc_async' = "raised"
                /\ exc_async' = o.exc
                /\ UNCHANGED <<a_branches, a_pending, a_fetched>>
           ELSE /\ pc_async' = "gather"
                /\ exc_async' = exc_async
                /\ a_branches' = FilterBranches(o.value, branch)
                /\ a_pending' = DOMAIN FilterBranches(o.value, branch)
                /\ a_fetched' = Range(FilterBranches(o.value, branch))
    /\ UNCHANGED <<a_results, a_tree, remoteVars, syncVars, treeVars, repoVars, pickerVars, searchVars, installVars>>

\* one in-flight request completes; an exception ends the gather at once
AsyncComplete(i) ==
    /\ pc_async = "gather"
    /\ i \in a_pending
    /\ LET b == a_branches[i]
           o == get_remote_tree_for_branch_async(tree_resp[b], RemoteTree(b), TRUE,
                                                 IGNORED_FILE_PREFIXES)
       IN
        /\ log_async' = IF o.logged THEN Append(log_async, LogEntry("tree", b))
                        ELSE log_async
        /\ a_pending' = a_pending \ {i}
        /\ IF o.kind = "raise"
           THEN /\ pc_async' = "raised"
                /\ exc_async' = o.exc
                /\ a_results' = a_results
           ELSE /\ a_results' = [x \in DOMAIN a_results \cup {i} |->
                                   IF x = i THEN o.value ELSE a_results[x]]
                /\ UNCHANGED <<pc_async, exc_async>>
    /\ UNCHANGED <<a_branches, a_tree, a_fetched, remoteVars, syncVars, treeVars, repoVars, pickerVars, searchVars, installVars>>

\* dict(zip(branches, tree_list)) once every request has completed
AsyncReturn ==
    /\ pc_async = "gather"
    /\ a_pending = {}
    /\ a_tree' = [b \in Range(a_branches) |->
                    a_results[CHOOSE i \in DOMAIN a_branches :
                                /\ a_branches[i] = b
                                /\ \A j \in DOMAIN a_branches :
                                      a_branches[j] = b => j <= i]]
    /\ pc_async' = "done"
    /\ UNCHANGED <<a_branches, a_pending, a_results, a_fetched, log_async,
                   exc_async, remoteVars, syncVars, treeVars, repoVars, pickerVars, searchVars, installVars>>

NextFetch ==
    \/ SyncStart
    \/ SyncFetch
    \/ SyncReturn
    \/ AsyncStart
    \/ \E i \in 1..MaxBranches + 1 : AsyncComplete(i)
    \/ AsyncReturn

SpecFetch == InitFetch /\ [][NextFetch]_vars

----------------------------------------------------------------------------
\* SpecTree: one get_remote_tree_for_branch call on a successful response

Paths == {<<".">>, <<".", "x">>, <<"d">>, <<"d", "x">>, <<"x">>, <<"x", "d">>}
Nodes == [type : {"blob", "tree"}, path : Paths]
Prefixes == {<<>>, <<".">>, <<"d">>, <<"d", "x">>}

InitTree ==
    /\ t_nodes \in SeqsUpTo(Nodes, MaxNodes)
    /\ t_prefixes \in SeqsUpTo(Prefixes, MaxPrefixes)
    /\ t_only_files \in BOOLEAN
    /\ t_pc = "call"
    /\ t_result = Return(<<>>, FALSE)
    /\ FetchIdle
    /\ RepoIdle
    /\ PickerIdle
    /\ SearchIdle
    /\ InstallIdle

TreeCall ==
    /\ t_pc = "call"
    /\ t_result' = get_remote_tree_for_branch("ok", t_nodes, t_only_files, t_prefixes)
    /\ t_pc' = "done"
    /\ UNCHANGED <<t_nodes, t_prefixes, t_only_files, fetchVars, repoVars, pickerVars, searchVars, installVars>>

NextTree == TreeCall

SpecTree == InitTree /\ [][NextTree]_vars

----------------------------------------------------------------------------
\* SpecRepo: get_repo_info called again and again on one configuration file

None == "<None>"

\* nf_core.utils.load_tools_config: the value of the last line that sets
\* key, None when no line does
RECURSIVE LoadToolsConfig(_, _, _)
LoadToolsConfig(file, key, i) ==
    IF i = 0 THEN None
    ELSE IF file[i].key = key THEN file[i].value
    ELSE LoadToolsConfig(file, key, i - 1)

\* getattr(tools_config, key, default)
GetAttr(file, key, default) ==
    LET v == LoadToolsConfig(file, key, Len(file)) IN
    IF v = None THEN default ELSE v

\* Python truthiness of a configuration value
Truthy(v) == v # None /\ v # ""

\* faulty variant of ValidRepoType: the validity check accepts everything
ValidRepoType_any(repo_type) == TRUE

\* repo_type in ["pipeline", "modules"]
ValidRepoType(repo_type) == repo_type \in {"pipeline", "modules"}

ReturnInfo(repo_type, org) ==
    [kind |-> "return", base_dir |-> "base_dir", repo_type |-> repo_type,
     org |-> org, error |-> "", value |-> ""]
UserWarning(error, value) ==
    [kind |-> "raise", base_dir |-> "", repo_type |-> "", org |-> "",
     error |-> error, value |-> value]

Outcome(result, prompts, file) == [result |-> result, prompts |-> prompts, file |-> file]

Line(key, value) == [key |-> key, value |-> value]

\* the second half of get_repo_info, from the validity check on
RepoInfoTail(file0, file1, prompts1, repo_type, c) ==
    IF ~ValidRepoType(repo_type)
    THEN Outcome(UserWarning("Invalid repository type", repo_type), prompts1, file1)
    ELSE IF repo_type # "modules"
    THEN Outcome(ReturnInfo(repo_type, ""), prompts1, file1)
    ELSE
      LET org0 == IF Truthy(GetAttr(file0, "org_path", ""))
                  THEN GetAttr(file0, "org_path", "") ELSE ""
          asked == org0 = ""
          org == IF asked THEN c.org_answer ELSE org0
          prompts2 == IF asked THEN prompts1 \o <<"text", "confirm">> ELSE prompts1
          file2 == IF asked /\ c.confirm_org
                   THEN Append(file1, Line("org_path", org)) ELSE file1
      IN IF org = ""
         THEN Outcome(UserWarning("Organisation path could not be established", ""),
                      prompts2, file2)
         ELSE Outcome(ReturnInfo(repo_type, org), prompts2, file2)

\* get_repo_info(directory, use_prompt) on the configuration file0, with the
\* answers c the user gives to the prompts that come up
get_repo_info(exists, file0, c) ==
    IF ~c.is_dir
    THEN Outcome(UserWarning("Could not find directory", ""), <<>>, file0)
    ELSE IF ~exists
    THEN Outcome(UserWarning("Could not find a config file", ""), <<>>, file0)
    ELSE
      LET repo_type0 == IF Truthy(GetAttr(file0, "repository_type", None))
                        THEN GetAttr(file0, "repository_type", None) ELSE None
      IN IF repo_type0 = None /\ c.use_prompt
         THEN RepoInfoTail(file0,
                           IF c.confirm_type
                           THEN Append(file0, Line("repository_type", c.type_answer))
                           ELSE file0,
                           <<"select", "confirm">>, c.type_answer, c)
         ELSE IF repo_type0 = None
         THEN Outcome(UserWarning("Repository type could not be established", ""),
                      <<>>, file0)
         ELSE RepoInfoTail(file0, file0, <<>>, repo_type0, c)

\* the configuration files a repository starts with
InitialConfigs ==
    {other \o rt \o org :
        other \in {<<>>, <<Line("lint", "on")>>},
        rt \in {<<>>} \cup {<<Line("repository_type", v)>> :
                               v \in {"pipeline", "modules", "library"}},
        org \in {<<>>, <<Line("org_path", "acme")>>}}

Calls ==
    [called : {TRUE}, is_dir : BOOLEAN, use_prompt : BOOLEAN,
     type_answer : {"pipeline", "modules"}, confirm_type : BOOLEAN,
     org_answer : {"", "nf-core", "acme"}, confirm_org : BOOLEAN]

InitRepo ==
    /\ cfg_exists \in BOOLEAN
    /\ cfg_file \in (IF cfg_exists THEN InitialConfigs ELSE {<<>>})
    /\ r_prev_file = cfg_file
    /\ r_call = NoCall /\ r_prompts = <<>> /\ r_result = NoResult
    /\ FetchIdle
    /\ TreeIdle
    /\ PickerIdle
    /\ SearchIdle
    /\ InstallIdle

GetRepoInfo(c) ==
    /\ Len(cfg_file) + 2 <= MaxConfigLines
    /\ LET o == get_repo_info(cfg_exists, cfg_file, c) IN
        /\ cfg_file' = o.file
        /\ r_prompts' = o.prompts
        /\ r_result' = o.result
    /\ r_prev_file' = cfg_file
    /\ r_call' = c
    /\ UNCHANGED <<cfg_exists, fetchVars, treeVars, pickerVars, searchVars, installVars>>

NextRepo == \E c \in Calls : GetRepoInfo(c)

SpecRepo == InitRepo /\ [][NextRepo]_vars

----------------------------------------------------------------------------
\* SpecPicker: prompt_component_version_sha

PageSize == 10

Min(a, b) == IF a <= b THEN a ELSE b

\* the hash of the i-th commit of the log
Sha(i) == 1000 + i

\* modules_repo.get_component_git_log: n commits, newest first
GitLog(n) == [i \in 1..n |-> [git_sha |-> Sha(i), trunc_message |-> i]]

\* [next(all_commits, None) for _ in range(10)] without the None entries,
\* for an iterator that has yielded pos commits
NextPage(commit_log, pos) == SubSeq(commit_log, pos + 1, Min(pos + PageSize, Len(commit_log)))

\* the older commits choice, whose value is the empty string
OlderCommitsChoice == [value |-> NoSha, message |-> 0, installed |-> FALSE]

\* questionary.Choice(title=commit_display, value=sha)
CommitChoice(commit, installed_sha) ==
    [value |-> commit.git_sha, message |-> commit.trunc_message,
     installed |-> (commit.git_sha = installed_sha)]

\* faulty variant of HasOlderCommits: offered whenever the current page is full
HasOlderCommits_full_page(commits, next_page_commits) == Len(commits) = PageSize

\* `if next_page_commits:`
HasOlderCommits(commits, next_page_commits) == next_page_commits # <<>>

InitPicker ==
    /\ p_log \in {GitLog(n) : n \in 1..MaxCommits}
    /\ p_installed \in {NoSha} \cup {Sha(i) : i \in 1..Len(p_log)}
    /\ p_pos = 0
    /\ p_commits = <<>> /\ p_next_page_commits = <<>> /\ p_choices = <<>>
    /\ p_git_sha = NoSha /\ p_page_nbr = 1 /\ p_pc = "start" /\ p_shown = <<>>
    /\ FetchIdle
    /\ TreeIdle
    /\ RepoIdle
    /\ SearchIdle
    /\ InstallIdle

\* everything before the while loop
PickerStart ==
    /\ p_pc = "start"
    /\ p_git_sha' = NoSha
    /\ p_page_nbr' = 1
    /\ p_next_page_commits' = NextPage(p_log, p_pos)
    /\ p_pos' = Min(p_pos + PageSize, Len(p_log))
    /\ p_pc' = "loop"
    /\ UNCHANGED <<p_log, p_installed, p_commits, p_choices, p_shown,
                   fetchVars, treeVars, repoVars, searchVars, installVars>>

\* the loop body up to the prompt: the page and its choices are built
PresentPage ==
    /\ p_pc = "loop"
    /\ p_git_sha = NoSha
    /\ p_commits' = p_next_page_commits
    /\ p_next_page_commits' = NextPage(p_log, p_pos)
    /\ p_pos' = Min(p_pos + PageSize, Len(p_log))
    /\ p_choices' =
          [i \in 1..Len(p_next_page_commits) |->
              CommitChoice(p_next_page_commits[i], p_installed)]
          \o (IF HasOlderCommits(p_next_page_commits, NextPage(p_log, p_pos))
              THEN <<OlderCommitsChoice>> ELSE <<>>)
    /\ p_shown' = p_shown \o [i \in 1..Len(p_next_page_commits) |->
                                 p_next_page_commits[i].git_sha]
    /\ p_pc' = "select"
    /\ UNCHANGED <<p_log, p_installed, p_git_sha, p_page_nbr,
                   fetchVars, treeVars, repoVars, searchVars, installVars>>

\* the user picks choice i; the loop ends when its value is a hash
Select(i) ==
    /\ p_pc = "select"
    /\ i \in DOMAIN p_choices
    /\ p_git_sha' = p_choices[i].value
    /\ p_page_nbr' = p_page_nbr + 1
    /\ p_pc' = IF p_choices[i].value = NoSha THEN "loop" ELSE "done"
    /\ UNCHANGED <<p_log, p_installed, p_pos, p_commits, p_next_page_commits,
                   p_choices, p_shown, fetchVars, treeVars, repoVars, searchVars, installVars>>

NextPicker ==
    \/ PickerStart
    \/ PresentPage
    \/ \E i \in 1..PageSize + 1 : Select(i)

SpecPicker == InitPicker /\ [][NextPicker]_vars

----------------------------------------------------------------------------
\* SpecSearch: the interactive file search

MODULES_BRANCH_NAME == "modules"

FileNames == {"a.txt", "b/c.csv", "d.fa"}
SearchBranches == {"modules", "rnaseq"}

\* what stdout.print received: the pieces of the text, and which statement
\* printed it
Printed(mode, text) == [mode |-> mode, text |-> text]

\* create_pretty_nf_path(path, is_module_dataset); the same text is built
\* inline by test_datasets_search
create_pretty_nf_path(path, is_module_dataset) ==
    <<"file(params.",
      IF is_module_dataset THEN "modules_" ELSE "pipelines_",
      "testdata_base_path + \"", path, "\"",
      ", checkIfExists: true)">>

\* create_download_url(branch, path)
create_download_url(b, path) ==
    <<"https://raw.githubusercontent.com/", "nf-core", "/", "test-datasets",
      "/refs/heads/", b, "/", path>>

\* sum(tree.values(), []) and the `files += v` loop
RECURSIVE Flatten(_, _)
Flatten(t, i) ==
    IF i > Len(t) THEN <<>> ELSE t[i].files \o Flatten(t, i + 1)

\* faulty variant of FileSelected: any non-empty answer is taken as a file
FileSelected_nonempty(selection, files) == selection # ""

\* any([selection == file for file in files])
FileSelected(selection, files) == \E i \in DOMAIN files : selection = files[i]

\* the print after the loop
Result(cmd, flags, b, selection) ==
    IF flags.generate_nf_path
    THEN Printed("nf_path", create_pretty_nf_path(selection, b = MODULES_BRANCH_NAME))
    ELSE IF cmd = "search_datasets" /\ flags.generate_dl_url
    THEN Printed("dl_url", create_download_url(b, selection))
    ELSE Printed("raw", <<selection>>)

FileLists == {fs \in SeqsUpTo(FileNames, MaxFiles) : IsInjective(fs)}

\* the mappings list_files_by_branch can return for branch b
Trees(b) ==
    IF b = NoBranchName
    THEN {<<[branch |-> "modules", files |-> f], [branch |-> "rnaseq", files |-> g]>> :
             f \in FileLists, g \in {<<>>, <<"d.fa">>}}
    ELSE {<<>>} \cup {<<[branch |-> b, files |-> fs]>> : fs \in FileLists}

InitSearch ==
    /\ s_cmd \in {"search_datasets", "test_datasets_search"}
    /\ s_branch \in (IF s_cmd = "search_datasets" THEN SearchBranches
                     ELSE SearchBranches \cup {NoBranchName})
    /\ s_flags \in {f \in [generate_nf_path : BOOLEAN, generate_dl_url : BOOLEAN] :
                       s_cmd = "test_datasets_search" => ~f.generate_dl_url}
    /\ s_tree \in Trees(s_branch)
    /\ s_files = <<>> /\ s_choices = <<>>
    /\ s_selection = "" /\ s_asked = 0 /\ s_out = <<>> /\ s_pc = "start"
    /\ FetchIdle
    /\ TreeIdle
    /\ RepoIdle
    /\ PickerIdle
    /\ InstallIdle

\* up to the first prompt
SearchStart ==
    /\ s_pc = "start"
    /\ s_out' = <<Printed("header", <<"Searching files on branch: ", s_branch>>)>>
    /\ s_files' = Flatten(s_tree, 1)
    /\ s_choices' = Flatten(s_tree, 1)
    /\ s_pc' = "prompt"
    /\ UNCHANGED <<s_cmd, s_branch, s_flags, s_tree, s_selection, s_asked,
                   fetchVars, treeVars, repoVars, pickerVars, installVars>>

\* the user answers the prompt: one pass through the loop body and, when
\* the loop ends, the print after it
Answer(selection) ==
    /\ s_pc = "prompt"
    /\ s_asked < MaxAnswers
    /\ s_selection' = selection
    /\ s_asked' = s_asked + 1
    /\ IF FileSelected(selection, s_files)
       THEN /\ s_out' = Append(s_out, Result(s_cmd, s_flags, s_branch, selection))
            /\ s_pc' = "done"
            /\ s_choices' = <<>>
       ELSE /\ s_out' = Append(s_out, Printed("message", <<"Please select a file.">>))
            /\ s_pc' = "prompt"
            /\ s_choices' = s_files
    /\ UNCHANGED <<s_cmd, s_branch, s_flags, s_tree, s_files,
                   fetchVars, treeVars, repoVars, pickerVars, installVars>>

NextSearch ==
    \/ SearchStart
    \/ \E selection \in FileNames \cup {"", "zzz"} : Answer(selection)

SpecSearch == InitSearch /\ [][NextSearch]_vars

----------------------------------------------------------------------------
\* SpecInstall: get_components_to_install

\* str.lower(), character by character
LowerChar(c) == CASE c = "F" -> "f" [] c = "B" -> "b" [] OTHER -> c
Lower(str) == [i \in DOMAIN str |-> LowerChar(str[i])]

\* "/".join(name.lower().split("_"))
ModuleName(name) == [i \in DOMAIN name |-> IF Lower(name)[i] = "_" THEN "/" ELSE Lower(name)[i]]

\* a record of one of the two dicts; enriched tells whether the keys
\* org_path, git_remote and branch have been set
NameOnly(name) ==
    [name |-> name, enriched |-> FALSE, org_path |-> <<>>, git_remote |-> <<>>,
     branch |-> None]

DictHas(d, key) == \E i \in DOMAIN d : d[i].name = key

\* d[key] = value on an insertion-ordered dict
DictSet(d, key, value) ==
    IF DictHas(d, key)
    THEN [i \in DOMAIN d |-> IF d[i].name = key THEN value ELSE d[i]]
    ELSE Append(d, value)

\* d[key].update({"org_path": ..., "git_remote": ..., "branch": ...})
DictUpdate(d, key, org_path, git_remote, b) ==
    [i \in DOMAIN d |->
        IF d[i].name = key
        THEN [name |-> d[i].name, enriched |-> TRUE, org_path |-> org_path,
              git_remote |-> git_remote, branch |-> b]
        ELSE d[i]]

\* one line of main.nf: whether the include pattern matches it, and the two
\* groups of the match; the link is a sequence of path segments
IncludeLine(name, link) == [match |-> TRUE, name |-> name, link |-> link]
OtherLine == [match |-> FALSE, name |-> <<>>, link |-> <<>>]

\* the body of `for line in fh`
ScanOne(line, modules, subworkflows) ==
    IF ~line.match THEN <<modules, subworkflows>>
    ELSE IF StartsWith(line.link, <<"../", "../", "../">>)
    THEN <<DictSet(modules, ModuleName(line.name), NameOnly(ModuleName(line.name))),
           subworkflows>>
    ELSE IF StartsWith(line.link, <<"../">>)
    THEN <<modules,
           DictSet(subworkflows, Lower(line.name), NameOnly(Lower(line.name)))>>
    ELSE <<modules, subworkflows>>

\* re.search(r"(?:https://|git@)[\w\.]+[:/](.*?)/", git_remote) on a remote
\* given as its pieces: the positions at which the pattern can start
Hosts == {"github.com", "gitlab.com"}
MatchStarts(git_remote) ==
    {i \in DOMAIN git_remote :
        /\ i + 3 <= Len(git_remote)
        /\ git_remote[i] \in {"https://", "git@"}
        /\ git_remote[i + 1] \in Hosts
        /\ git_remote[i + 2] \in {":", "/"}
        /\ \E j \in (i + 3)..Len(git_remote) : git_remote[j] = "/"}

OrgPathMatches(git_remote) == MatchStarts(git_remote) # {}

\* org_path_match.group(1): the pieces up to the next "/"
OrgPath(git_remote) ==
    LET i == CHOOSE x \in MatchStarts(git_remote) :
                 \A y \in MatchStarts(git_remote) : x <= y
        j == CHOOSE x \in (i + 3)..Len(git_remote) :
                 /\ git_remote[x] = "/"
                 /\ \A y \in (i + 3)..Len(git_remote) : git_remote[y] = "/" => x <= y
    IN SubSeq(git_remote, i + 3, j - 1)

Error(type, message, name) == [type |-> type, message |-> message, name |-> name]

Step(exc, modules, subworkflows) ==
    [exc |-> exc, modules |-> modules, subworkflows |-> subworkflows]

\* the body of `for component in components`; the entry is is_dict with one
\* key, or a plain string
HandleComponent(component, modules, subworkflows) ==
    IF ~component.is_dict THEN Step(NoError, modules, subworkflows)
    ELSE
      LET component_name == Lower(component.key) IN
      IF component_name # component.key
      THEN Step(Error("KeyError", "", component_name), modules, subworkflows)
      ELSE IF ~OrgPathMatches(component.git_remote)
      THEN Step(Error("UserWarning", "Organisation path could not be established for",
                      component_name), modules, subworkflows)
      ELSE IF DictHas(subworkflows, component_name)
      THEN Step(NoError, modules,
                DictUpdate(subworkflows, component_name, OrgPath(component.git_remote),
                           component.git_remote, component.branch))
      ELSE IF DictHas(modules, component_name)
      THEN Step(NoError,
                DictUpdate(modules, component_name, OrgPath(component.git_remote),
                           component.git_remote, component.branch),
                subworkflows)
      ELSE Step(Error("KeyError", "", component_name), modules, subworkflows)

IncludeNames == {<<"F">>, <<"F", "_", "B">>}
IncludeLinks == {<<"../", "../", "../", "modules/">>, <<"../", "sub/">>, <<"./", "x">>}
MainNfLines == {IncludeLine(n, l) : n \in IncludeNames, l \in IncludeLinks} \cup {OtherLine}

ComponentKeys == {<<"f">>, <<"F">>, <<"f", "/", "b">>}
GitRemotes ==
    {<<"https://", "github.com", "/", "acme", "/", "modules.git">>,
     <<"git@", "gitlab.com", ":", "nf-core", "/", "modules.git">>,
     <<"https://", "github.com", "/", "acme">>}
MetaEntries ==
    {[is_dict |-> TRUE, key |-> k, git_remote |-> r, branch |-> b] :
        k \in ComponentKeys, r \in GitRemotes, b \in {None, "dev"}}
    \cup {[is_dict |-> FALSE, key |-> <<"f">>, git_remote |-> <<>>, branch |-> None]}

InitInstall ==
    /\ g_main_nf \in SeqsUpTo(MainNfLines, MaxLines)
    /\ g_meta \in {[exists |-> FALSE, components |-> <<>>]}
                  \cup {[exists |-> TRUE, components |-> cs] :
                           cs \in SeqsUpTo(MetaEntries, MaxComponents)}
    /\ g_line = 0 /\ g_comp = 0 /\ g_modules = <<>> /\ g_subworkflows = <<>>
    /\ g_result = <<>> /\ g_exc = NoError /\ g_pc = "run"
    /\ FetchIdle
    /\ TreeIdle
    /\ RepoIdle
    /\ PickerIdle
    /\ SearchIdle

\* one line of main.nf is read
ScanLine ==
    /\ g_pc = "run"
    /\ g_line < Len(g_main_nf)
    /\ LET r == ScanOne(g_main_nf[g_line + 1], g_modules, g_subworkflows) IN
        /\ g_modules' = r[1]
        /\ g_subworkflows' = r[2]
    /\ g_line' = g_line + 1
    /\ UNCHANGED <<g_main_nf, g_meta, g_comp, g_result, g_exc, g_pc,
                   fetchVars, treeVars, repoVars, pickerVars, searchVars>>

\* one entry of the components list of meta.yml is handled
MetaEntry ==
    /\ g_pc = "run"
    /\ g_line = Len(g_main_nf)
    /\ g_meta.exists
    /\ g_comp < Len(g_meta.components)
    /\ LET r == HandleComponent(g_meta.components[g_comp + 1], g_modules, g_subworkflows) IN
        /\ g_modules' = r.modules
        /\ g_subworkflows' = r.subworkflows
        /\ g_exc' = r.exc
        /\ g_pc' = IF r.exc = NoError THEN "run" ELSE "raised"
    /\ g_comp' = g_comp + 1
    /\ UNCHANGED <<g_main_nf, g_meta, g_line, g_result,
                   fetchVars, treeVars, repoVars, pickerVars, searchVars>>

\* return list(modules.values()), list(subworkflows.values())
ReturnLists ==
    /\ g_pc = "run"
    /\ g_line = Len(g_main_nf)
    /\ ~g_meta.exists \/ g_comp = Len(g_meta.components)
    /\ g_result' = <<g_modules, g_subworkflows>>
    /\ g_pc' = "done"
    /\ UNCHANGED <<g_main_nf, g_meta, g_line, g_comp, g_modules, g_subworkflows,
                   g_exc, fetchVars, treeVars, repoVars, pickerVars, searchVars>>

NextInstall ==
    \/ ScanLine
    \/ MetaEntry
    \/ ReturnLists

SpecInstall == InitInstall /\ [][NextInstall]_vars

----------------------------------------------------------------------------
\* Properties of the remote fetches

FailureKinds == {"connfail", "badjson", "nokey"}
StatusKinds == {"status_json", "status_nojson"}

\* the files of branch b that are neither directories nor administrative
ExpectedFiles(b) ==
    << <<"d", "a", "t", "a", "/", "s", ".", "c", "s", "v">>,
       <<"d", "a", "t", "a", "/", ToString(b)>> >>

\* C1: a connection failure, a body that is not JSON, or JSON without the
\* expected key is caught inside get_remote_branches and
\* get_remote_tree_for_branch: an error is logged, the empty list is
\* returned, no exception propagates, and list_files_by_branch goes on with
\* the empty data.
C1_FailuresDowngraded ==
    /\ pc_sync # "raised"
    /\ (pc_sync \in {"loop", "done"} /\ branches_resp.kind \in FailureKinds)
          => /\ branches = <<>>
             /\ LogEntry("branches", NoBranch) \in Range(log_sync)
    /\ \A i \in DOMAIN fetched :
          tree_resp[fetched[i]] \in FailureKinds
             => /\ fetched[i] \in DOMAIN tree
                /\ tree[fetched[i]] = <<>>
                /\ LogEntry("tree", fetched[i]) \in Range(log_sync)

\* C2: a non-success status on the tree fetch of a branch never raises: the
\* branch maps to the empty list, an error is logged, and in the returned
\* mapping every other branch maps to its own files.
C2_StatusGivesEmptyList ==
    /\ \A i \in DOMAIN fetched :
          tree_resp[fetched[i]] \in StatusKinds
             => /\ fetched[i] \in DOMAIN tree
                /\ tree[fetched[i]] = <<>>
                /\ LogEntry("tree", fetched[i]) \in Range(log_sync)
                /\ ~(pc_sync = "raised" /\ i = Len(fetched))
    /\ pc_sync = "done"
          => /\ DOMAIN tree = Range(branches)
             /\ \A b \in DOMAIN tree :
                   tree[b] = IF tree_resp[b] \in StatusKinds THEN <<>>
                             ELSE ExpectedFiles(b)

C2_Witness ==
    /\ pc_sync = "done"
    /\ \E b, c \in DOMAIN tree :
          /\ tree_resp[b] \in StatusKinds /\ tree[b] = <<>>
          /\ tree_resp[c] = "ok" /\ tree[c] # <<>>

\* C3: with a requested branch r and remote branches B, trees are fetched
\* only for r; the returned mapping has the key set {r} when r is in B and
\* the empty key set otherwise, in which case an error naming r is logged
\* and nothing is fetched; without a requested branch the key set is B.
C3_BranchRestriction ==
    LET B == Range(branches_resp.names) IN
    /\ branch # NoBranch
          => /\ \A i \in DOMAIN fetched : fetched[i] = branch
             /\ a_fetched \subseteq {branch}
    /\ (branch # NoBranch /\ branch \notin B /\ pc_sync \in {"loop", "done"})
          => /\ fetched = <<>>
             /\ LogEntry("No branches matching", branch) \in Range(log_sync)
    /\ pc_sync = "done"
          => DOMAIN tree = IF branch = NoBranch THEN B
                           ELSE IF branch \in B THEN {branch} ELSE {}

C3_Witness ==
    /\ pc_sync = "done"
    /\ branch # NoBranch
    /\ Cardinality(Range(branches_resp.names)) >= 2
    /\ DOMAIN tree = {branch}
    /\ fetched = <<branch>>

\* the positions of the entries that are files outside every ignored prefix
Qualifying(nodes, ignored_prefixes) ==
    {i \in DOMAIN nodes :
        /\ nodes[i].type = "blob"
        /\ \A j \in DOMAIN ignored_prefixes :
              ~StartsWith(nodes[i].path, ignored_prefixes[j])}

\* C4: on a successful response get_remote_tree_for_branch returns exactly
\* the paths of the blob entries that start with no ignored prefix, in the
\* order of the response.
C4_ExactFilter ==
    (t_pc = "done" /\ t_only_files)
       => LET Q == Qualifying(t_nodes, t_prefixes)
              v == t_result.value
          IN /\ t_result.kind = "return"
             /\ Len(v) = Cardinality(Q)
             /\ \A k \in DOMAIN v :
                   \E i \in Q : /\ Cardinality({j \in Q : j <= i}) = k
                                /\ v[k] = t_nodes[i].path

C4_Witness ==
    /\ t_pc = "done" /\ t_only_files
    /\ Len(t_nodes) = 3
    /\ Len(t_prefixes) = 2
    /\ t_nodes[1].type = "tree"
    /\ t_nodes[2].type = "blob" /\ StartsWith(t_nodes[2].path, t_prefixes[2])
    /\ ~StartsWith(t_nodes[2].path, t_prefixes[1])
    /\ t_result.value = <<t_nodes[3].path>>

\* C5: for the same branches and the same responses, and whatever the order
\* in which the requests complete, list_files_by_branch_async returns only
\* after every request has completed and ends as list_files_by_branch does,
\* with the same mapping.
C5_AsyncEqualsSync ==
    /\ pc_async = "done" => a_pending = {}
    /\ (pc_sync \in {"done", "raised"} /\ pc_async \in {"done", "raised"})
          => /\ pc_async = pc_sync
             /\ pc_sync = "done" => a_tree = tree

----------------------------------------------------------------------------
\* Properties of get_repo_info

HasKey(file, key) == \E i \in DOMAIN file : file[i].key = key

\* the last call got past the directory and configuration-file checks
Resolving == r_call.called /\ r_call.is_dir /\ cfg_exists

\* C6: with prompting disallowed get_repo_info invokes no prompt at all; it
\* returns (base_dir, type, org) from the configuration when
\* repository_type (and org_path for modules) is present, fails with the
\* unresolved-type error when repository_type is absent, and with the
\* unresolved-org error when the type is modules and org_path is absent.
C6_NoPromptWhenDisallowed ==
    (Resolving /\ ~r_call.use_prompt)
       => LET rt == GetAttr(r_prev_file, "repository_type", None)
              org == GetAttr(r_prev_file, "org_path", None)
          IN /\ r_prompts = <<>>
             /\ rt = None
                  => /\ r_result.kind = "raise"
                     /\ r_result.error = "Repository type could not be established"
             /\ (rt = "modules" /\ org = None)
                  => /\ r_result.kind = "raise"
                     /\ r_result.error = "Organisation path could not be established"
             /\ (rt = "pipeline" \/ (rt = "modules" /\ Truthy(org)))
                  => r_result = ReturnInfo(rt, IF rt = "modules" THEN org ELSE "")

\* C7: a get_repo_info call only appends whole lines to the configuration
\* file: the old content stays as a prefix, a repository_type or org_path
\* line is appended only when that key was absent from the configuration at
\* the call and the user confirmed, and a call that reads both values from
\* the configuration, or in which the user declines, changes nothing.
C7_AppendOnlyAbsentKeys ==
    /\ Len(r_prev_file) <= Len(cfg_file)
    /\ SubSeq(cfg_file, 1, Len(r_prev_file)) = r_prev_file
    /\ \A i \in DOMAIN cfg_file :
          i > Len(r_prev_file)
             => /\ cfg_file[i].key \in {"repository_type", "org_path"}
                /\ ~HasKey(r_prev_file, cfg_file[i].key)
                /\ cfg_file[i].key = "repository_type" => r_call.confirm_type
                /\ cfg_file[i].key = "org_path" => r_call.confirm_org
    /\ (r_call.called /\ ~r_call.confirm_type /\ ~r_call.confirm_org)
          => cfg_file = r_prev_file
    /\ (r_call.called /\ HasKey(r_prev_file, "repository_type")
                      /\ HasKey(r_prev_file, "org_path")
                      /\ Truthy(GetAttr(r_prev_file, "org_path", None)))
          => cfg_file = r_prev_file

\* C8: whenever get_repo_info returns, the type is pipeline or modules, the
\* organisation path is empty for pipeline and non-empty for modules; any
\* other resolved repository_type ends in the invalid-type error naming it.
C8_ReturnedTypeAndOrg ==
    /\ r_result.kind = "return"
          => /\ r_result.repo_type \in {"pipeline", "modules"}
             /\ r_result.repo_type = "pipeline" => r_result.org = ""
             /\ r_result.repo_type = "modules" => r_result.org # ""
    /\ LET rt == GetAttr(r_prev_file, "repository_type", None) IN
       (Resolving /\ Truthy(rt) /\ rt \notin {"pipeline", "modules"})
          => /\ r_result.kind = "raise"
             /\ r_result.error = "Invalid repository type"
             /\ r_result.value = rt

C8_Witness ==
    /\ r_result.kind = "return"
    /\ r_result.repo_type = "modules"
    /\ r_result.org = "nf-core"
    /\ r_prompts = <<"select", "confirm", "text", "confirm">>

----------------------------------------------------------------------------
\* Properties of the commit picker

\* C9: with N commits the k-th page lists exactly the commits 10(k-1)+1 ..
\* min(10k, N) in log order, no commit is shown twice, "older commits" ends
\* the page exactly when N > 10k, and the picker returns only with the hash
\* of a commit of the page on which the pick was made.
C9_Pagination ==
    LET N == Len(p_log) IN
    /\ p_pc = "select"
          => LET k == p_page_nbr
                 first == PageSize * (k - 1) + 1
                 last == Min(PageSize * k, N)
                 listed == SelectSeq(p_choices, LAMBDA c : c.value # NoSha)
             IN /\ Len(listed) = last - first + 1
                /\ Len(listed) >= 1
                /\ \A i \in DOMAIN listed : listed[i].value = Sha(first + i - 1)
                /\ (p_choices[Len(p_choices)].value = NoSha) <=> (N > PageSize * k)
                /\ Len(p_choices) = Len(listed) + (IF N > PageSize * k THEN 1 ELSE 0)
    /\ IsInjective(p_shown)
    /\ p_pc = "done"
          => /\ p_git_sha # NoSha
             /\ \E i \in DOMAIN p_choices : p_choices[i].value = p_git_sha
             /\ \E i \in DOMAIN p_commits : p_commits[i].git_sha = p_git_sha
    /\ p_pc = "loop" => p_git_sha = NoSha

C9_Witness ==
    /\ p_pc = "done"
    /\ Len(p_log) = 25
    /\ p_page_nbr = 4
    /\ Len(p_choices) = 5
    /\ p_git_sha = Sha(25)
    /\ Len(p_shown) = 25

----------------------------------------------------------------------------
\* Properties of the interactive file search

ResultModes == {"nf_path", "dl_url", "raw"}

Results(out) == SelectSeq(out, LAMBDA e : e.mode \in ResultModes)
Messages(out) == SelectSeq(out, LAMBDA e : e.mode = "message")

\* C10: a result is printed only after an answer that equals a listed file;
\* every other answer prints "Please select a file." and prompts again with
\* the same files; a matching answer prints exactly one result, built from
\* that answer, in exactly one of the three modes, and ends the command.
C10_SearchLoop ==
    /\ [](/\ Len(Results(s_out)) = (IF s_pc = "done" THEN 1 ELSE 0)
          /\ Len(Messages(s_out)) = (IF s_pc = "done" THEN s_asked - 1 ELSE s_asked)
          /\ \A i \in DOMAIN s_out :
                s_out[i].mode = "message" => s_out[i].text = <<"Please select a file.">>
          /\ s_pc = "prompt" => s_choices = Flatten(s_tree, 1)
          /\ s_pc = "done"
                => LET r == s_out[Len(s_out)] IN
                   /\ s_selection \in Range(Flatten(s_tree, 1))
                   /\ r.mode \in ResultModes
                   /\ s_selection \in Range(r.text)
                   /\ r.mode = "nf_path" <=> s_flags.generate_nf_path
                   /\ r.mode = "dl_url"
                         => ~s_flags.generate_nf_path /\ s_flags.generate_dl_url
                   /\ r.mode = "raw" => r.text = <<s_selection>>)
    /\ [][/\ s_pc # "done"
          /\ (s_pc = "prompt" /\ s_selection' \notin Range(s_files))
                => /\ s_pc' = "prompt"
                   /\ s_choices' = s_choices
                   /\ s_out' = Append(s_out, Printed("message", <<"Please select a file.">>))
          /\ (s_pc = "prompt" /\ s_selection' \in Range(s_files))
                => /\ s_pc' = "done"
                   /\ Len(s_out') = Len(s_out) + 1]_searchVars

C10_Witness ==
    /\ s_pc = "done"
    /\ s_cmd = "search_datasets"
    /\ s_asked = 3
    /\ Len(Messages(s_out)) = 2
    /\ s_out[Len(s_out)] = Printed("dl_url", create_download_url("modules", "b/c.csv"))

----------------------------------------------------------------------------
\* Properties of get_components_to_install

\* the include lines of main.nf that create a record of the given kind
IsModuleLine(line) == line.match /\ StartsWith(line.link, <<"../", "../", "../">>)
IsSubworkflowLine(line) ==
    line.match /\ ~IsModuleLine(line) /\ StartsWith(line.link, <<"../">>)

ScannedModules == {ModuleName(g_main_nf[i].name) :
                      i \in {j \in DOMAIN g_main_nf : IsModuleLine(g_main_nf[j])}}
ScannedSubworkflows == {Lower(g_main_nf[i].name) :
                          i \in {j \in DOMAIN g_main_nf : IsSubworkflowLine(g_main_nf[j])}}

\* the entries of the components list that are mappings
DictEntries == {i \in DOMAIN g_meta.components : g_meta.components[i].is_dict}

\* the last mapping entry among the handled ones that names n
LastEntryFor(n) ==
    LET E == {i \in DictEntries : i <= g_comp /\ Lower(g_meta.components[i].key) = n}
    IN IF E = {} THEN 0 ELSE CHOOSE i \in E : \A j \in E : j <= i

\* the record of n in d carries what entry e of meta.yml says
Enriched(d, n, e) ==
    \E i \in DOMAIN d :
        /\ d[i].name = n
        /\ d[i].enriched
        /\ d[i].org_path = OrgPath(e.git_remote)
        /\ d[i].git_remote = e.git_remote
        /\ d[i].branch = e.branch

\* C11: every single-key mapping entry of the components list whose
\* git_remote yields an organisation path is merged onto the existing record
\* of its lower-cased name, in subworkflows when the name is there and in
\* modules otherwise; every record made from main.nf is in the returned
\* lists, modules first; an entry whose git_remote yields no organisation
\* path ends in the unresolved-org error naming the component.  Entries
\* whose name has a record in neither collection are left aside.
C11_MetaMerge ==
    /\ \A i \in DictEntries :
          LET e == g_meta.components[i]
              n == Lower(e.key)
              known == n \in ScannedModules \cup ScannedSubworkflows
          IN (i <= g_comp /\ g_line = Len(g_main_nf) /\ known)
                => IF OrgPathMatches(e.git_remote)
                   THEN /\ ~(g_pc = "raised" /\ i = g_comp)
                        /\ (g_pc # "raised" /\ LastEntryFor(n) = i)
                              => IF n \in ScannedSubworkflows
                                 THEN Enriched(g_subworkflows, n, e)
                                 ELSE Enriched(g_modules, n, e)
                   ELSE /\ g_pc = "raised"
                        /\ i = g_comp
                        /\ g_exc = Error("UserWarning",
                                         "Organisation path could not be established for", n)
    /\ g_pc = "done"
          => /\ Len(g_result) = 2
             /\ {g_result[1][i].name : i \in DOMAIN g_result[1]} = ScannedModules
             /\ {g_result[2][i].name : i \in DOMAIN g_result[2]} = ScannedSubworkflows
             /\ IsInjective([i \in DOMAIN g_result[1] |-> g_result[1][i].name])
             /\ IsInjective([i \in DOMAIN g_result[2] |-> g_result[2][i].name])

====
